---- MODULE Spec2Model ----
(***************************************************************************)
(* Model of the HathiTrust SIP generator: the structural-metadata reader   *)
(* (mets.py / metadata.py), the content cleaner, the two pipeline variants *)
(* (gen-hathitrust-sip.py, gen-ht-sip.py) and the archive splitter         *)
(* (util.split_zip).                                                       *)
(*                                                                         *)
(* Text is a sequence of one-character strings.  "nl" stands for "\n" and  *)
(* "ctl" for any other character of Unicode category C.                    *)
(***************************************************************************)
EXTENDS Integers, Sequences, FiniteSets, TLC

VARIABLES
    \* ---- mets.SourceEntityMets.get_file_ids
    leaves,        \* the qualifying div elements, in document order
    file_ids,      \* the returned list
    rpc,
    \* ---- content cleaner
    cvariant,      \* which script's cleaner is applied
    text,          \* the content of the text artifact
    cleaned,       \* after one cleaning
    recleaned,     \* after cleaning the cleaned content
    cpc,
    \* ---- util.split_zip
    file_list,     \* the archive's entries, in archive order
    max_size,      \* the ceiling
    idx,           \* position of the for loop in file_list
    current_size,
    part_num,
    part_zip,      \* None (0) or the index of the open part
    parts,         \* part_<n>.zip, each the sequence of entries written to it
    spc,
    \* ---- main() of the two scripts
    variant,       \* "hathitrust" (gen-hathitrust-sip.py) or "htsip" (gen-ht-sip.py)
    npages,        \* length of the ordered page list
    pc,
    page,          \* the loop variable i of enumerate(..., start=1)
    step,          \* position inside the page's loop body
    sip_files,     \* contents of sip_dir: destination name -> bytes
    stage_order,   \* destination names in the order the files were created
    ledger,        \* lines of checksum.md5
    page_data,     \* the pagedata keys, in insertion order
    tmpdir_exists,
    archive,       \* entries of <barcode>.zip, or NoArchive
    size_gb,
    validator_rc,
    exit_status,
    failed_at,     \* the per-page step that raised, or NoFailure
    ops,           \* history: the operations main() performed, in order
    split_parts    \* archive parts produced by the splitter call

rvars == <<leaves, file_ids, rpc>>
cvars == <<cvariant, text, cleaned, recleaned, cpc>>
svars == <<file_list, max_size, idx, current_size, part_num, part_zip, parts, spc>>
pvars == <<variant, npages, pc, page, step, sip_files, stage_order, ledger,
           page_data, tmpdir_exists, archive, size_gb, validator_rc,
           exit_status, failed_at, ops, split_parts>>
vars == <<rvars, cvars, svars, pvars>>

\* ------------------------------------------------------------------ bounds
MaxLeaves == 3
MaxTextLen == 6
MaxEntries == 3
MaxEntrySize == 3
MaxCeiling == 3
MaxPages == 2

\* ----------------------------------------------------------------- helpers
RECURSIVE SeqsUpTo(_, _)
SeqsUpTo(S, n) ==
    IF n = 0 THEN {<<>>}
    ELSE LET shorter == SeqsUpTo(S, n - 1)
         IN shorter \cup {Append(s, x) : s \in {t \in shorter : Len(t) = n - 1}, x \in S}

RECURSIVE Concat(_)
Concat(ss) == IF ss = <<>> THEN <<>> ELSE Head(ss) \o Concat(Tail(ss))

IsPrefixAt(pat, s, p) ==
    /\ p + Len(pat) - 1 <= Len(s)
    /\ \A j \in 1..Len(pat) : s[p + j - 1] = pat[j]

\* ================================================== structural metadata reader
\* int(d.get("ORDER")) for a string of decimal digits
DigitValue(ch) ==
    CASE ch = "0" -> 0 [] ch = "1" -> 1 [] ch = "2" -> 2 [] ch = "3" -> 3
      [] ch = "4" -> 4 [] ch = "5" -> 5 [] ch = "6" -> 6 [] ch = "7" -> 7
      [] ch = "8" -> 8 [] ch = "9" -> 9

RECURSIVE ParseInt(_)
ParseInt(s) ==
    IF s = <<>> THEN 0
    ELSE 10 * ParseInt(SubSeq(s, 1, Len(s) - 1)) + DigitValue(s[Len(s)])

OrderKey(div) == ParseInt(div.ORDER)

\* sorted(..., key=...) is stable: an element goes after those with key <= its own
RECURSIVE InsertByKey(_, _)
InsertByKey(sorted, div) ==
    IF sorted = <<>> THEN <<div>>
    ELSE IF OrderKey(Head(sorted)) <= OrderKey(div)
         THEN <<Head(sorted)>> \o InsertByKey(Tail(sorted), div)
         ELSE <<div>> \o sorted

\* A faulty variant of SortedByOrder: the xpath result used in document order.
DocumentOrder(divs) == divs

RECURSIVE SortedByOrder(_)
SortedByOrder(divs) ==
    IF divs = <<>> THEN <<>>
    ELSE InsertByKey(SortedByOrder(SubSeq(divs, 1, Len(divs) - 1)), divs[Len(divs)])

\* re.sub(r"^f-", "", file_id)
StripPrefix(s) ==
    IF IsPrefixAt(<<"f", "-">>, s, 1) THEN SubSeq(s, 3, Len(s)) ELSE s

\* re.sub(r"_[md]$", "", file_id)
StripSuffix(s) ==
    IF Len(s) >= 2 /\ s[Len(s) - 1] = "_" /\ s[Len(s)] \in {"m", "d"}
    THEN SubSeq(s, 1, Len(s) - 2) ELSE s

PageIdentifier(div) == StripSuffix(StripPrefix(div.FILEID))

get_file_ids(divs) ==
    LET sorted == SortedByOrder(divs)
    IN [i \in 1..Len(sorted) |-> PageIdentifier(sorted[i])]

OrderStrs == {<<"5">>, <<"1", "0">>, <<"2", "0">>}
FileIdStrs == {<<"f", "-", "a", "_", "m">>, <<"f", "-", "b", "_", "d">>, <<"c">>}
Divs == [ORDER : OrderStrs, FILEID : FileIdStrs]

ReaderIdle == /\ leaves = <<>> /\ file_ids = <<>> /\ rpc = "off"

InitReader ==
    /\ leaves \in SeqsUpTo(Divs, MaxLeaves)
    /\ file_ids = <<>>
    /\ rpc = "start"

GetFileIds ==
    /\ rpc = "start"
    /\ file_ids' = get_file_ids(leaves)
    /\ rpc' = "done"
    /\ UNCHANGED <<leaves, cvars, svars, pvars>>

\* ============================================================ content cleaner
Alphabet == {"/", "t", "ctl", "nl"}

\* \p{C}: the newline is a control character (Cc) too
IsCatC(ch) == ch \in {"ctl", "nl"}

\* iterating a text file: each line keeps its "\n", the last may lack one
RECURSIVE Lines(_)
Lines(t) ==
    IF t = <<>> THEN <<>>
    ELSE IF \E p \in 1..Len(t) : t[p] = "nl"
         THEN LET p == CHOOSE q \in 1..Len(t) :
                           t[q] = "nl" /\ \A r \in 1..(q - 1) : t[r] # "nl"
              IN <<SubSeq(t, 1, p)>> \o Lines(SubSeq(t, p + 1, Len(t)))
         ELSE <<t>>

\* line.rstrip("\n")
RECURSIVE RStripNl(_)
RStripNl(line) ==
    IF line # <<>> /\ line[Len(line)] = "nl"
    THEN RStripNl(SubSeq(line, 1, Len(line) - 1)) ELSE line

\* The two patterns the scripts pass to regex.sub.
CatCPattern == [class |-> TRUE, literal |-> <<>>]
\* rf"{sip_dir}{os.sep}": an absolute directory path followed by the separator
SipDirPattern == [class |-> FALSE, literal |-> <<"/", "t", "/">>]

\* regex.sub(literal, "", line): leftmost, non-overlapping matches are removed
RECURSIVE SubLiteral(_, _)
SubLiteral(lit, line) ==
    IF line = <<>> THEN <<>>
    ELSE IF IsPrefixAt(lit, line, 1)
         THEN SubLiteral(lit, SubSeq(line, Len(lit) + 1, Len(line)))
         ELSE <<Head(line)>> \o SubLiteral(lit, Tail(line))

\* regex.sub(pattern, "", line)
RegexSub(pattern, line) ==
    IF pattern.class THEN SelectSeq(line, LAMBDA ch : ~IsCatC(ch))
    ELSE SubLiteral(pattern.literal, line)

\* gen-hathitrust-sip.py: remove_control_chars(input_file, output_file)
remove_control_chars(t) ==
    LET ls == Lines(t)
    IN Concat([n \in 1..Len(ls) |-> RegexSub(CatCPattern, ls[n]) \o <<"nl">>])

\* gen-ht-sip.py: remove_pattern_from_file(pattern, input_file)
remove_pattern_from_file(pattern, t) ==
    LET ls == Lines(t)
    IN Concat([n \in 1..Len(ls) |-> RegexSub(pattern, RStripNl(ls[n])) \o <<"nl">>])

\* gen-ht-sip.py: the cleaning applied to a .txt or .html artifact
CleanOcrOutput(t) ==
    remove_pattern_from_file(SipDirPattern, remove_pattern_from_file(CatCPattern, t))

Clean(v, t) == IF v = "hathitrust" THEN remove_control_chars(t) ELSE CleanOcrOutput(t)

CleanerIdle ==
    /\ cvariant = "off" /\ text = <<>> /\ cleaned = <<>> /\ recleaned = <<>> /\ cpc = "off"

InitCleaner ==
    /\ cvariant \in {"hathitrust", "htsip"}
    /\ text \in SeqsUpTo(Alphabet, MaxTextLen)
    /\ cleaned = <<>>
    /\ recleaned = <<>>
    /\ cpc = "raw"

CleanOnce ==
    /\ cpc = "raw"
    /\ cleaned' = Clean(cvariant, text)
    /\ cpc' = "cleaned"
    /\ UNCHANGED <<cvariant, text, recleaned, rvars, svars, pvars>>

CleanAgain ==
    /\ cpc = "cleaned"
    /\ recleaned' = Clean(cvariant, cleaned)
    /\ cpc' = "recleaned"
    /\ UNCHANGED <<cvariant, text, cleaned, rvars, svars, pvars>>

\* ============================================================ util.split_zip
None == 0
Payloads == {"x", "y"}
Entries == [size : 0..MaxEntrySize, data : Payloads]

\* An archive made from a directory: the k-th entry's name is the k-th file name
\* of the directory, so names are pairwise distinct.
ArchiveOf(contents) ==
    [k \in 1..Len(contents) |->
        [name |-> k, size |-> contents[k].size, data |-> contents[k].data]]

\* The spec's scenario: 25 files of 1 GB each, ceiling 10 GB (sizes in GB).
ScenarioArchive == ArchiveOf([k \in 1..25 |-> [size |-> 1, data |-> "x"]])

\* input_zip.namelist()
namelist(zip) == [k \in 1..Len(zip) |-> zip[k].name]

\* input_zip.getinfo(name): the entry registered under the name (the last one)
getinfo(zip, name) ==
    zip[CHOOSE k \in 1..Len(zip) :
            zip[k].name = name /\ \A j \in (k + 1)..Len(zip) : zip[j].name # name]

\* input_zip.read(name)
read(zip, name) == getinfo(zip, name).data

\* A faulty variant of NeedNewPart: the comparison written with >=.
NeedNewPartAtCeiling(pz, cur, file_size, ceiling) ==
    pz = None \/ cur + file_size >= ceiling

\* util.py line 54
NeedNewPart(pz, cur, file_size, ceiling) ==
    pz = None \/ cur + file_size > ceiling

\* A faulty variant of writestr: the entry that opened a new part is not written to it.
writestr_unless_fresh(ps, pz, file_info, bytes) ==
    IF ps[pz].entries = <<>> THEN ps
    ELSE [ps EXCEPT ![pz].entries =
            Append(@, [name |-> file_info.name, size |-> file_info.size, data |-> bytes])]

\* part_zip.writestr(file_info, bytes)
writestr(ps, pz, file_info, bytes) ==
    [ps EXCEPT ![pz].entries =
        Append(@, [name |-> file_info.name, size |-> file_info.size, data |-> bytes])]

SplitterIdle ==
    /\ file_list = <<>> /\ max_size = 0 /\ idx = 0 /\ current_size = 0
    /\ part_num = 0 /\ part_zip = None /\ parts = <<>> /\ spc = "off"

InitSplitter ==
    /\ \/ /\ file_list \in {ArchiveOf(c) : c \in SeqsUpTo(Entries, MaxEntries)}
          /\ max_size \in 0..MaxCeiling
       \/ /\ file_list = ScenarioArchive
          /\ max_size = 10
    /\ idx = 1
    /\ current_size = 0
    /\ part_num = 1
    /\ part_zip = None
    /\ parts = <<>>
    /\ spc = "loop"

\* one iteration of "for file_name in file_list"
SplitNext ==
    /\ spc = "loop"
    /\ idx <= Len(file_list)
    /\ LET file_name == namelist(file_list)[idx]
           file_info == getinfo(file_list, file_name)
           file_size == file_info.size
           fresh     == NeedNewPart(part_zip, current_size, file_size, max_size)
           opened    == IF fresh
                        THEN Append(parts, [num |-> part_num, entries |-> <<>>])
                        ELSE parts
           pz        == IF fresh THEN Len(opened) ELSE part_zip
           cur       == IF fresh THEN 0 ELSE current_size
       IN /\ parts' = writestr(opened, pz, file_info, read(file_list, file_name))
          /\ part_zip' = pz
          /\ part_num' = IF fresh THEN part_num + 1 ELSE part_num
          /\ current_size' = cur + file_size
    /\ idx' = idx + 1
    /\ UNCHANGED <<file_list, max_size, spc, rvars, cvars, pvars>>

\* the loop is exhausted: the last part is closed
SplitClose ==
    /\ spc = "loop"
    /\ idx > Len(file_list)
    /\ spc' = "done"
    /\ UNCHANGED <<file_list, max_size, idx, current_size, part_num, part_zip, parts,
                   rvars, cvars, pvars>>

\* ======================================================= main(): the pipeline
FormatWidth == 8
EnumerateStart == 1
SplitThresholdGb == 15
SplitZipRequiredArgs == 3
SplitZipCallArgs == 1

DigitChar(d) ==
    CASE d = 0 -> "0" [] d = 1 -> "1" [] d = 2 -> "2" [] d = 3 -> "3" [] d = 4 -> "4"
      [] d = 5 -> "5" [] d = 6 -> "6" [] d = 7 -> "7" [] d = 8 -> "8" [] d = 9 -> "9"

\* str(i)
RECURSIVE str(_)
str(i) == IF i < 10 THEN <<DigitChar(i)>> ELSE str(i \div 10) \o <<DigitChar(i % 10)>>

\* A faulty variant of Format08d: the 6-digit naming profile.
Format06d(i) ==
    LET d == str(i)
    IN IF Len(d) >= 6 THEN d ELSE [k \in 1..(6 - Len(d)) |-> "0"] \o d

\* f"{i:08d}": a minimum width, never a truncation
Format08d(i) ==
    LET d == str(i)
    IN IF Len(d) >= FormatWidth THEN d ELSE [k \in 1..(FormatWidth - Len(d)) |-> "0"] \o d

\* enumerate(pages, start=1): the number handed out at list position pos
enumerate_index(pos) == EnumerateStart + pos - 1

\* HATHI_EXT, in insertion order: source suffix -> destination extension
HATHI_EXT == <<[src |-> "_d.jp2", dst |-> ".jp2"],
               [src |-> "_ocr.txt", dst |-> ".txt"],
               [src |-> "_ocr.hocr", dst |-> ".html"]>>
\* gen-ht-sip.py: for ext in [".tif", ".txt", ".html"]
OCR_EXT == <<".tif", ".txt", ".html">>

dst_base(i, ext) == Format08d(i) \o <<ext>>

meta_base == <<"meta.yml">>
checksum_base == <<"checksum.md5">>

\* hashlib.md5 over the file's bytes
calculate_md5(bytes) == <<"md5:">> \o bytes

\* A faulty variant of ChecksumTarget: the digest taken of the bytes before they were cleaned.
ChecksumSource(before, after) == before

\* calculate_md5(dst_file) runs after the cleaner wrote dst_file
ChecksumTarget(before, after) == after

\* A faulty variant of RunChecked: subprocess.run without check=True, open() errors swallowed.
RunUnchecked(ok) == "continue"

\* a failing step raises; nothing in main() catches it
RunChecked(ok) == IF ok THEN "continue" ELSE "raise"

\* meta_str.strip() + "\n" + yaml.dump({"pagedata": page_data})
manifest_bytes(pd) ==
    <<"meta_str", "nl", "pagedata:">>
        \o Concat([k \in 1..Len(pd) |-> pd[k].name \o <<":">> \o pd[k].orderlabel])

\* the ledger file as written by chks_out.write
ledger_bytes(lg) ==
    Concat([k \in 1..Len(lg) |-> lg[k].digest \o <<" ">> \o lg[k].name \o <<"nl">>])

ImageBytes == <<"i", "m", "g">>
Missing == <<"ENOENT">>
\* contents of aux/<id>_ocr.txt and aux/<id>_ocr.hocr, or none
SourceTexts == {<<"t", "nl">>, <<"t", "ctl", "nl", "t">>}
\* what tesseract writes
OcrTexts == {<<"t", "nl">>, <<"/", "t", "/", "t", "ctl", "nl">>}
ArchiveSizesGb == {1, SplitThresholdGb, SplitThresholdGb + 1}
NoArchive == <<>>
NoFailure == [pos |-> 0, step |-> 0]
NoFiles == <<>>

HasFile(files, name) == name \in DOMAIN files
PutFile(files, name, bytes) ==
    [n \in DOMAIN files \cup {name} |-> IF n = name THEN bytes ELSE files[n]]

\* shutil.make_archive(output_zip_file, "zip", sip_dir): every file of sip_dir
make_archive(files, order, lg) ==
    <<[name |-> checksum_base, data |-> ledger_bytes(lg)]>>
        \o [k \in 1..Len(order) |-> [name |-> order[k], data |-> files[order[k]]]]

PipelineIdle ==
    /\ variant = "off" /\ npages = 0 /\ pc = "off" /\ page = 0 /\ step = 0
    /\ sip_files = NoFiles /\ stage_order = <<>> /\ ledger = <<>> /\ page_data = <<>>
    /\ tmpdir_exists = FALSE /\ archive = NoArchive /\ size_gb = 0 /\ validator_rc = 0
    /\ exit_status = 0 /\ failed_at = NoFailure /\ ops = <<>> /\ split_parts = <<>>

\* the state on entering the page loop: sip_dir made, checksum.md5 opened
InitPipeline ==
    /\ variant \in {"hathitrust", "htsip"}
    /\ npages \in 0..MaxPages
    /\ pc = "pages"
    /\ page = 1
    /\ step = 1
    /\ sip_files = NoFiles
    /\ stage_order = <<>>
    /\ ledger = <<>>
    /\ page_data = <<>>
    /\ tmpdir_exists = TRUE
    /\ archive = NoArchive
    /\ size_gb = 0
    /\ validator_rc = 0
    /\ exit_status = 0
    /\ failed_at = NoFailure
    /\ ops = <<>>
    /\ split_parts = <<>>

\* An uncaught exception inside the with block: TemporaryDirectory removes tmpdir.
Raise(stepname) ==
    /\ pc' = "exit"
    /\ exit_status' = 1
    /\ tmpdir_exists' = FALSE
    /\ sip_files' = NoFiles
    /\ failed_at' = [pos |-> page, step |-> step]
    /\ ops' = Append(ops, [op |-> "failed", pos |-> page, name |-> <<stepname>>])
    /\ UNCHANGED <<variant, npages, page, step, stage_order, ledger, page_data,
                   archive, size_gb, validator_rc, split_parts>>

Advance(nsteps) ==
    /\ step' = IF step = nsteps THEN 1 ELSE step + 1
    /\ page' = IF step = nsteps THEN page + 1 ELSE page

\* gen-hathitrust-sip.py: one iteration of "for src_ext in HATHI_EXT"
StageArtifact ==
    /\ variant = "hathitrust"
    /\ pc = "pages"
    /\ page <= npages
    /\ LET ext  == HATHI_EXT[step].dst
           i    == enumerate_index(page)
           name == dst_base(i, ext)
       IN \E src \in (IF ext = ".jp2" THEN {ImageBytes} ELSE SourceTexts) \cup {Missing} :
            LET ok    == src # Missing
                \* os.symlink for the image, remove_control_chars for the text kinds
                bytes == IF ext = ".jp2" THEN src ELSE remove_control_chars(src)
            IN IF RunChecked(ok) = "raise"
               THEN Raise(HATHI_EXT[step].src)
               ELSE /\ IF ok
                       THEN /\ sip_files' = PutFile(sip_files, name, bytes)
                            /\ stage_order' = Append(stage_order, name)
                            /\ page_data' =
                                 IF ext = ".jp2"
                                 THEN Append(page_data, [name |-> name, orderlabel |-> str(i)])
                                 ELSE page_data
                            /\ ledger' = Append(ledger,
                                 [digest |-> calculate_md5(ChecksumTarget(src, bytes)),
                                  name |-> name])
                            /\ ops' = Append(ops, [op |-> "stage", pos |-> page, name |-> name])
                       ELSE /\ ops' = Append(ops, [op |-> "failed", pos |-> page, name |-> name])
                            /\ UNCHANGED <<sip_files, stage_order, page_data, ledger>>
                    /\ Advance(Len(HATHI_EXT))
                    /\ UNCHANGED <<variant, npages, pc, tmpdir_exists, archive, size_gb,
                                   validator_rc, exit_status, failed_at, split_parts>>
    /\ UNCHANGED <<rvars, cvars, svars>>

\* gen-ht-sip.py lines 164-175: magick, tesseract, tesseract hocr and the rename
RunOcrTool ==
    /\ variant = "htsip"
    /\ pc = "pages"
    /\ page <= npages
    /\ step <= Len(OCR_EXT)
    /\ LET ext  == OCR_EXT[step]
           i    == enumerate_index(page)
           name == dst_base(i, ext)
           tif  == dst_base(i, ".tif")
       IN \E rc \in {0, 1}, out \in (IF ext = ".tif" THEN {ImageBytes} ELSE OcrTexts) :
            LET ok == rc = 0 /\ (ext = ".tif" \/ HasFile(sip_files, tif))
            IN IF RunChecked(ok) = "raise"
               THEN Raise(ext)
               ELSE /\ IF ok
                       THEN /\ sip_files' = PutFile(sip_files, name, out)
                            /\ stage_order' = Append(stage_order, name)
                            /\ ops' = Append(ops, [op |-> "stage", pos |-> page, name |-> name])
                       ELSE /\ ops' = Append(ops, [op |-> "failed", pos |-> page, name |-> name])
                            /\ UNCHANGED <<sip_files, stage_order>>
                    /\ Advance(2 * Len(OCR_EXT))
                    /\ UNCHANGED <<variant, npages, pc, ledger, page_data, tmpdir_exists,
                                   archive, size_gb, validator_rc, exit_status, failed_at,
                                   split_parts>>
    /\ UNCHANGED <<rvars, cvars, svars>>

\* gen-ht-sip.py lines 177-187: one iteration of "for ext in [.tif, .txt, .html]"
RecordArtifact ==
    /\ variant = "htsip"
    /\ pc = "pages"
    /\ page <= npages
    /\ step > Len(OCR_EXT)
    /\ LET ext  == OCR_EXT[step - Len(OCR_EXT)]
           i    == enumerate_index(page)
           name == dst_base(i, ext)
           ok   == HasFile(sip_files, name)
       IN IF RunChecked(ok) = "raise"
          THEN Raise(ext)
          ELSE /\ IF ok
                  THEN LET raw   == sip_files[name]
                           bytes == IF ext = ".tif" THEN raw ELSE CleanOcrOutput(raw)
                       IN /\ sip_files' = PutFile(sip_files, name, bytes)
                          /\ page_data' =
                               IF ext = ".tif"
                               THEN Append(page_data, [name |-> name, orderlabel |-> str(i)])
                               ELSE page_data
                          /\ ledger' = Append(ledger,
                               [digest |-> calculate_md5(ChecksumTarget(raw, bytes)),
                                name |-> name])
                          /\ ops' = Append(ops, [op |-> "record", pos |-> page, name |-> name])
                  ELSE /\ ops' = Append(ops, [op |-> "failed", pos |-> page, name |-> name])
                       /\ UNCHANGED <<sip_files, page_data, ledger>>
               /\ Advance(2 * Len(OCR_EXT))
               /\ UNCHANGED <<variant, npages, pc, stage_order, tmpdir_exists, archive,
                              size_gb, validator_rc, exit_status, failed_at, split_parts>>
    /\ UNCHANGED <<rvars, cvars, svars>>

\* after the page loop: meta.yml is written and its ledger line appended last
WriteManifest ==
    /\ pc = "pages"
    /\ page > npages
    /\ LET bytes == manifest_bytes(page_data)
       IN /\ sip_files' = PutFile(sip_files, meta_base, bytes)
          /\ stage_order' = Append(stage_order, meta_base)
          /\ ledger' = Append(ledger, [digest |-> calculate_md5(bytes), name |-> meta_base])
    /\ ops' = Append(ops, [op |-> "manifest", pos |-> 0, name |-> meta_base])
    /\ pc' = "archive"
    /\ UNCHANGED <<variant, npages, page, step, page_data, tmpdir_exists, archive, size_gb,
                   validator_rc, exit_status, failed_at, split_parts>>
    /\ UNCHANGED <<rvars, cvars, svars>>

\* shutil.make_archive into tmp_base, outside tmpdir; gen-ht-sip.py leaves the
\* with block right after it, gen-hathitrust-sip.py stays inside until main() ends
MakeArchive ==
    /\ pc = "archive"
    /\ archive' = make_archive(sip_files, stage_order, ledger)
    /\ \E gb \in ArchiveSizesGb : size_gb' = gb
    /\ ops' = Append(ops, [op |-> "archive", pos |-> 0, name |-> <<".zip">>])
    /\ tmpdir_exists' = (variant = "hathitrust")
    /\ sip_files' = IF variant = "hathitrust" THEN sip_files ELSE NoFiles
    /\ pc' = "validate"
    /\ UNCHANGED <<variant, npages, page, step, stage_order, ledger, page_data,
                   validator_rc, exit_status, failed_at, split_parts>>
    /\ UNCHANGED <<rvars, cvars, svars>>

\* bundle exec ruby bin/validate_sip <zip>, check=True
Validate ==
    /\ pc = "validate"
    /\ \E rc \in {0, 1} :
         /\ validator_rc' = rc
         /\ IF RunChecked(rc = 0) = "raise"
            THEN /\ pc' = "exit"
                 /\ exit_status' = 1
                 /\ tmpdir_exists' = FALSE
                 /\ sip_files' = NoFiles
            ELSE /\ pc' = "size_check"
                 /\ UNCHANGED <<exit_status, tmpdir_exists, sip_files>>
    /\ ops' = Append(ops, [op |-> "validate", pos |-> 0, name |-> <<".zip">>])
    /\ UNCHANGED <<variant, npages, page, step, stage_order, ledger, page_data,
                   archive, size_gb, failed_at, split_parts>>
    /\ UNCHANGED <<rvars, cvars, svars>>

\* "if size_gb > 15" is false: main() returns
FinishUnsplit ==
    /\ pc = "size_check"
    /\ ~(size_gb > SplitThresholdGb)
    /\ pc' = "exit"
    /\ exit_status' = 0
    /\ tmpdir_exists' = FALSE
    /\ sip_files' = NoFiles
    /\ UNCHANGED <<variant, npages, page, step, stage_order, ledger, page_data, archive,
                   size_gb, validator_rc, failed_at, ops, split_parts>>
    /\ UNCHANGED <<rvars, cvars, svars>>

\* util.split_zip(output_zip_file): one argument for three required parameters,
\* so the call raises TypeError before the body of split_zip runs
CallSplitZip ==
    /\ pc = "size_check"
    /\ size_gb > SplitThresholdGb
    /\ SplitZipCallArgs < SplitZipRequiredArgs
    /\ pc' = "exit"
    /\ exit_status' = 1
    /\ tmpdir_exists' = FALSE
    /\ sip_files' = NoFiles
    /\ ops' = Append(ops, [op |-> "TypeError", pos |-> 0, name |-> <<"split_zip">>])
    /\ UNCHANGED <<variant, npages, page, step, stage_order, ledger, page_data, archive,
                   size_gb, validator_rc, failed_at, split_parts>>
    /\ UNCHANGED <<rvars, cvars, svars>>

\* ============================================================ specifications
Init == InitPipeline /\ ReaderIdle /\ CleanerIdle /\ SplitterIdle
Next ==
    \/ StageArtifact
    \/ RunOcrTool
    \/ RecordArtifact
    \/ WriteManifest
    \/ MakeArchive
    \/ Validate
    \/ FinishUnsplit
    \/ CallSplitZip
Spec == Init /\ [][Next]_vars

InitR == InitReader /\ CleanerIdle /\ SplitterIdle /\ PipelineIdle
NextR == GetFileIds
SpecReader == InitR /\ [][NextR]_vars

InitC == InitCleaner /\ ReaderIdle /\ SplitterIdle /\ PipelineIdle
NextC == CleanOnce \/ CleanAgain
SpecCleaner == InitC /\ [][NextC]_vars

InitS == InitSplitter /\ ReaderIdle /\ CleanerIdle /\ PipelineIdle
NextS == SplitNext \/ SplitClose
SpecSplitter == InitS /\ [][NextS]_vars

\* ===================================================================== claims
PositionsOf(s) == 1..Len(s)

DistinctOrders(divs) ==
    \A a, b \in PositionsOf(divs) : a # b => ParseInt(divs[a].ORDER) # ParseInt(divs[b].ORDER)

\* 1 + the number of leaves with a smaller integer ORDER
RankOf(divs, j) ==
    1 + Cardinality({k \in PositionsOf(divs) :
                        ParseInt(divs[k].ORDER) < ParseInt(divs[j].ORDER)})

\* C1: when the leaves' integer ORDER values are pairwise distinct, get_file_ids
\* returns one identifier per leaf, and the identifier of the leaf with the i-th
\* smallest ORDER is at position i, whatever the document order of the leaves.
C1_SortedByOrder ==
    (rpc = "done" /\ DistinctOrders(leaves)) =>
        /\ Len(file_ids) = Len(leaves)
        /\ \A j \in PositionsOf(leaves) :
              file_ids[RankOf(leaves, j)] = PageIdentifier(leaves[j])

\* C1 witness: ORDER 10, 5, 20 in document order yields the ids for 5, 10, 20.
C1_Witness ==
    /\ rpc = "done"
    /\ leaves = <<[ORDER |-> <<"1", "0">>, FILEID |-> <<"f", "-", "a", "_", "m">>],
                  [ORDER |-> <<"5">>, FILEID |-> <<"f", "-", "b", "_", "d">>],
                  [ORDER |-> <<"2", "0">>, FILEID |-> <<"c">>]>>
    /\ file_ids = << <<"b">>, <<"a">>, <<"c">> >>

\* C2: get_file_ids never returns a page list for a document in which two
\* qualifying leaves share an ORDER value.
C2_DuplicateOrderRejected == ~(rpc = "done" /\ ~DistinctOrders(leaves))

\* ---------------------------------------------------------------- C3
RECURSIVE TenTo(_)
TenTo(n) == IF n = 0 THEN 1 ELSE 10 * TenTo(n - 1)

\* n written as exactly eight decimal digits
EightDigits(n) == [k \in 1..8 |-> DigitChar((n \div TenTo(8 - k)) % 10)]

\* the staging operations of the page loop, in the order they were performed
StagingOps == SelectSeq(ops, LAMBDA o : o.op \in {"stage", "record"})

\* C3: every artifact staged for the page at list position i is named by i written
\* as exactly 8 zero-padded digits followed by the kind's extension; the numbers
\* start at 00000001 and rise by one without gaps, up to N when the loop completes.
C3_SequenceNumbers ==
    /\ \A k \in PositionsOf(StagingOps) :
          LET o == StagingOps[k]
          IN /\ Len(o.name) = 9
             /\ SubSeq(o.name, 1, 8) = EightDigits(o.pos)
             /\ ParseInt(SubSeq(o.name, 1, 8)) = o.pos
             /\ o.name[9] \in {".jp2", ".tif", ".txt", ".html"}
             /\ k = 1 => SubSeq(o.name, 1, 8) = <<"0", "0", "0", "0", "0", "0", "0", "1">>
             /\ k > 1 => o.pos \in {StagingOps[k - 1].pos, StagingOps[k - 1].pos + 1}
    /\ (pc # "pages" /\ failed_at = NoFailure) =>
          {StagingOps[k].pos : k \in PositionsOf(StagingOps)} = 1..npages

\* C3 witness: a two-page run completed and page 2's OCR markup is 00000002.html.
C3_Witness ==
    /\ pc = "exit"
    /\ exit_status = 0
    /\ npages = 2
    /\ \E k \in PositionsOf(StagingOps) :
          /\ StagingOps[k].pos = 2
          /\ StagingOps[k].name = <<"0", "0", "0", "0", "0", "0", "0", "2", ".html">>

\* ---------------------------------------------------------------- C4
ArchiveEntry(name) == CHOOSE e \in {archive[k] : k \in PositionsOf(archive)} : e.name = name

\* C4: once the archive exists, checksum.md5 holds exactly one line per staged
\* file, in staging order, each line's digest is the digest of the bytes archived
\* under that name, and the last line is the one of meta.yml.
C4_LedgerMatchesArchive ==
    archive # NoArchive =>
        /\ Len(ledger) = Len(stage_order)
        /\ \A k \in PositionsOf(ledger) :
              /\ ledger[k].name = stage_order[k]
              /\ \E j \in PositionsOf(archive) : archive[j].name = ledger[k].name
              /\ ledger[k].digest = calculate_md5(ArchiveEntry(ledger[k].name).data)
        /\ \A a, b \in PositionsOf(ledger) : a # b => ledger[a].name # ledger[b].name
        /\ ledger[Len(ledger)].name = meta_base
        /\ ArchiveEntry(checksum_base).data = ledger_bytes(ledger)

\* C4 witness: an archive of two pages whose text artifacts were changed by the cleaner.
C4_Witness ==
    /\ archive # NoArchive
    /\ npages = 2
    /\ Len(ledger) = 7
    /\ \E k \in PositionsOf(ledger) :
          ledger[k].digest = calculate_md5(<<"t", "nl", "t", "nl">>)

\* ---------------------------------------------------------------- C5
PartEntries == Concat([p \in PositionsOf(parts) |-> parts[p].entries])

\* C5: when split_zip returns, the parts' entries concatenated in part-number
\* order are the archive's entries (names, sizes, bytes, order), the parts are
\* numbered 1, 2, ... without gaps, and no part is empty.
C5_RoundTrip ==
    spc = "done" =>
        /\ PartEntries = file_list
        /\ \A p \in PositionsOf(parts) : parts[p].num = p /\ parts[p].entries # <<>>

\* C5 witness: three entries were distributed over two parts.
C5_Witness ==
    /\ spc = "done"
    /\ Len(file_list) = 3
    /\ Len(parts) = 2
    /\ Len(parts[1].entries) = 2

\* ---------------------------------------------------------------- C6
RECURSIVE TotalSize(_)
TotalSize(es) == IF es = <<>> THEN 0 ELSE Head(es).size + TotalSize(Tail(es))

\* C6: no part exceeds the ceiling unless it is a single entry larger than the
\* ceiling; such an entry is alone in its part; a part other than the first was
\* opened only because its first entry did not fit into the part before it; and
\* 25 entries of 1 GB under a ceiling of 10 GB give exactly 3 parts.
C6_CeilingRespected ==
    spc = "done" =>
        /\ \A p \in PositionsOf(parts) :
              \/ TotalSize(parts[p].entries) <= max_size
              \/ Len(parts[p].entries) = 1 /\ parts[p].entries[1].size > max_size
        /\ \A p \in PositionsOf(parts) : \A k \in PositionsOf(parts[p].entries) :
              parts[p].entries[k].size > max_size => Len(parts[p].entries) = 1
        /\ \A p \in PositionsOf(parts) :
              p > 1 => TotalSize(parts[p - 1].entries) + parts[p].entries[1].size > max_size
        /\ (file_list = ScenarioArchive /\ max_size = 10) =>
              /\ Len(parts) = 3
              /\ TotalSize(parts[1].entries) = 10
              /\ TotalSize(parts[3].entries) = 5

\* C6 witness: an entry larger than the ceiling sits alone between two other parts.
C6_Witness ==
    /\ spc = "done"
    /\ Len(parts) = 3
    /\ Len(parts[2].entries) = 1
    /\ parts[2].entries[1].size > max_size
    /\ TotalSize(parts[1].entries) <= max_size

\* ---------------------------------------------------------------- C7
Performed(opname) == \E k \in PositionsOf(ops) : ops[k].op = opname

\* C7: a run whose archive exceeds the size threshold and whose validation passed
\* ends normally with the archive's entries partitioned into parts.
C7_LargeArchiveIsSplit ==
    (pc = "exit" /\ Performed("validate") /\ validator_rc = 0
        /\ size_gb > SplitThresholdGb) =>
        /\ exit_status = 0
        /\ split_parts # <<>>

\* ---------------------------------------------------------------- C8
\* C8: after a run in which the validator exited non-zero, the exit status is
\* non-zero and neither the archive nor the staging directory remains.
C8_NothingDeliveredOnValidatorFailure ==
    (pc = "exit" /\ Performed("validate") /\ validator_rc # 0) =>
        /\ exit_status # 0
        /\ ~tmpdir_exists
        /\ archive = NoArchive

\* ---------------------------------------------------------------- C9
\* C9: cleaning already-cleaned content changes nothing, for either script's cleaner.
C9_CleanerIdempotent == cpc = "recleaned" => recleaned = cleaned

\* ---------------------------------------------------------------- C10
\* C10: a failed per-page step is the last thing the run does: nothing is staged
\* after it, no archive is made, the staging directory is removed and the exit
\* status is non-zero.
C10_AbortOnPageFailure ==
    \A k \in PositionsOf(ops) :
        ops[k].op = "failed" =>
            /\ k = Len(ops)
            /\ failed_at = [pos |-> ops[k].pos, step |-> step]
            /\ pc = "exit"
            /\ exit_status # 0
            /\ archive = NoArchive
            /\ ~Performed("archive")
            /\ ~tmpdir_exists
            /\ sip_files = NoFiles

\* C10 witness: the first page of a two-page run failed after an artifact was staged.
C10_Witness ==
    /\ npages = 2
    /\ failed_at.pos = 1
    /\ failed_at.step > 1
    /\ Performed("stage")
    /\ Performed("failed")
    /\ pc = "exit"

====
